---- MODULE Spec2Model ----
(***************************************************************************)
(* Model of the resume-optimization pipeline:                              *)
(*   - ResumeWorkflow (src/src/workflow/resume_workflow.py): the five      *)
(*     LangGraph nodes wired by unconditional edges, and run_workflow;     *)
(*   - ResumePlannerAgent.validate_inputs and get_next_step                *)
(*     (src/src/agents/resume_planner_agent.py);                           *)
(*   - WorkflowContextStore (src/src/workflow/context_store.py), with two  *)
(*     callers of update_context interleaved at its load and write;        *)
(*   - ATSOptimizerAgent (src/src/agents/ats_optimizer_agent.py): the      *)
(*     three scores, the composite score, the auto-fix, optimize_resume;   *)
(*   - ContentAlignmentAgent (src/src/agents/content_alignment_agent.py):  *)
(*     highlight_matching_experiences and align_content's experience list. *)
(*                                                                         *)
(* In a workflow run the collaborators (job extractor, profile retriever,  *)
(* aligner, ATS scorer, renderer) are the environment: each call's         *)
(* behaviour is chosen with \E.                                            *)
(***************************************************************************)
EXTENDS Integers, Sequences, FiniteSets, TLC

VARIABLES
    pc,             \* position of run_workflow: idle, a node name, finish, done
    graph,          \* which StateGraph was imported: "langgraph" or "mock"
    rag_params,     \* arguments rag_agent.retrieve_relevant_profile accepts
    want_intermediate, \* run_workflow's return_intermediate_results argument
    state,          \* the WorkflowState threaded through the nodes
    outcome,        \* per stage: what the call statement of the node produced
    callLog,        \* collaborators entered, in call order (mock call counts)
    result,         \* the dictionary run_workflow returns
    disk,           \* context store: file content per context id
    nextId,         \* context store: next fresh uuid
    lastRet,        \* context store: context returned by the last create/update per id
    lastOp,         \* context store: the last operation, its arguments and result
    race,           \* context store: update_context calls in progress, per caller
    ats             \* agent objects (ATS optimizer, content aligner, planner):
                    \* the call made on one, its input and its result

wfVars == <<pc, graph, rag_params, want_intermediate, state, outcome, callLog, result>>
storeVars == <<disk, nextId, lastRet, lastOp>>
vars == <<pc, graph, rag_params, want_intermediate, state, outcome, callLog, result,
          disk, nextId, lastRet, lastOp, race, ats>>

-----------------------------------------------------------------------------
(* Values                                                                  *)

Stages == 1..5

\* workflow.add_node names, in the order of the add_edge chain
StageName == <<"extract_job_data", "retrieve_profile", "align_content",
               "optimize_ats", "generate_latex">>

\* Python None for a record-valued field
None == [kind |-> "None", src |-> 0, empty |-> FALSE, error |-> FALSE,
         loggable |-> FALSE, title_none |-> FALSE]

\* A dict returned by the collaborator of stage k
Dict(k, isEmpty, hasError, canLog, noTitle) ==
    [kind |-> "dict", src |-> k, empty |-> isEmpty, error |-> hasError,
     loggable |-> canLog, title_none |-> noTitle]

\* Python truthiness of a record-valued field: None and {} are falsy
Truthy(v) == v.kind = "dict" /\ ~v.empty

\* Paths: None, "", a path where no file exists, a path of an existing file
NoPath == "<None>"
GoodPath == "output/resume.tex"
MissingPath == "output/missing.tex"
Exists(p) == p = GoodPath

\* Behaviours of a record-returning collaborator (stages 1..4) when entered
\*   ok      a non-empty record without 'error'
\*   notitle (job extractor only) such a record whose job_title is None
\*   badlog  a non-empty record without 'error' whose logged fields have a
\*           type the node's log statements cannot format
\*   error   a record carrying 'error'
\*   empty   {}
\*   none    None
\*   raise   an exception
RecordBehaviours == {"ok", "badlog", "error", "empty", "none", "raise"}
JobBehaviours == RecordBehaviours \cup {"notitle"}

\* Behaviours of the renderer: ok / a path with no file / "" / None / raise /
\* vanish (the file is gone between os.path.exists and os.path.getsize)
RenderBehaviours == {"ok", "nofile", "empty", "none", "raise", "vanish"}

\* Behaviours of validate_overleaf_compatibility (or of reading the file)
ValidationBehaviours == {"clean", "warnings", "raise"}

\* The record a collaborator of stage k returns under behaviour b
Return(k, b) ==
    CASE b = "ok"      -> Dict(k, FALSE, FALSE, TRUE, FALSE)
      [] b = "notitle" -> Dict(k, FALSE, FALSE, TRUE, TRUE)
      [] b = "badlog"  -> Dict(k, FALSE, FALSE, FALSE, FALSE)
      [] b = "error"   -> Dict(k, FALSE, TRUE, TRUE, FALSE)
      [] b = "empty"   -> Dict(k, TRUE, FALSE, TRUE, FALSE)
      [] OTHER         -> None

\* The path the renderer returns under behaviour b
ReturnPath(b) ==
    CASE b \in {"ok", "vanish"} -> GoodPath
      [] b = "nofile"           -> MissingPath
      [] b = "empty"            -> ""
      [] OTHER                  -> NoPath

-----------------------------------------------------------------------------
(* Inputs of a run and ResumePlannerAgent.validate_inputs                   *)

\* A job URL with the components urlparse gives for it
Url(text, sch, loc, n) == [raw |-> text, scheme |-> sch, netloc |-> loc, len |-> n]
JobUrls == { Url("", "", "", 0),
             Url("not a url", "", "", 9),
             Url("https://example.com/job", "https", "example.com", 23),
             Url("https://example.com/job?q=long", "https", "example.com", 501) }

\* Profile ids as sequences of characters
ProfileIds == { <<>>, <<" ", "a", " ">>, <<"u", "-", "1">>, <<"u", "!", "1">> }

Whitespace == {" "}
AlnumChars == {"a", "u", "1"}

RECURSIVE LStrip(_)
LStrip(s) == IF s # <<>> /\ Head(s) \in Whitespace THEN LStrip(Tail(s)) ELSE s

RECURSIVE RStrip(_)
RStrip(s) ==
    IF s # <<>> /\ s[Len(s)] \in Whitespace THEN RStrip(SubSeq(s, 1, Len(s) - 1)) ELSE s

\* str.strip()
Strip(s) == RStrip(LStrip(s))

\* str.replace(c, "")
RECURSIVE Remove(_, _)
Remove(s, c) ==
    IF s = <<>> THEN <<>>
    ELSE IF Head(s) = c THEN Remove(Tail(s), c) ELSE <<Head(s)>> \o Remove(Tail(s), c)

\* str.isalnum(): non-empty and every character alphanumeric
IsAlnum(s) == s # <<>> /\ \A i \in 1..Len(s) : s[i] \in AlnumChars

_is_valid_url(u) == u.scheme # "" /\ u.netloc # ""

MinProfileIdLen == 3
LongUrlLen == 500

validate_inputs(u, p) ==
    LET urlErrors ==
            IF u.raw = "" THEN <<"Job URL is required and must be a string">>
            ELSE IF ~_is_valid_url(u) THEN <<"Invalid job URL format">>
            ELSE <<>>
        idErrors ==
            IF p = <<>> THEN <<"Profile ID is required and must be a string">>
            ELSE IF Len(Strip(p)) < MinProfileIdLen
                 THEN <<"Profile ID must be at least 3 characters long">>
            ELSE <<>>
        urlWarnings ==
            IF u.raw # "" /\ u.len > LongUrlLen THEN <<"Job URL is unusually long">> ELSE <<>>
        idWarnings ==
            IF p # <<>> /\ ~IsAlnum(Remove(Remove(p, "-"), "_"))
            THEN <<"Profile ID contains special characters">> ELSE <<>>
    IN [valid |-> urlErrors = <<>> /\ idErrors = <<>>,
        errors |-> urlErrors \o idErrors,
        warnings |-> urlWarnings \o idWarnings]

-----------------------------------------------------------------------------
(* WorkflowState and the nodes                                             *)

\* run_workflow's initial_state
InitialState(u, p) ==
    [job_url |-> u, profile_id |-> p,
     job_data |-> None, profile_data |-> None, aligned_data |-> None,
     optimized_data |-> None, latex_file_path |-> NoPath,
     current_step |-> "initializing", step_count |-> 0,
     errors |-> <<>>, warnings |-> <<>>, execution_time |-> {}]

\* The messages of the nodes
FailedMsg == <<"Failed to extract job data", "Failed to retrieve profile data",
               "Failed to align content", "Failed to optimize for ATS",
               "Failed to generate LaTeX file">>
ErrorMsg == <<"Error in job data extraction", "Error in profile retrieval",
              "Error in content alignment", "Error in ATS optimization",
              "Error in LaTeX generation">>
MissingMsg == <<"", "No job data available for profile retrieval",
                "Missing job data or profile data for content alignment",
                "No aligned data available for ATS optimization",
                "No optimized data available for LaTeX generation">>
WorkflowFailedMsg == "Workflow execution failed"
ValidationFailedMsg == "Could not validate Overleaf compatibility"
OverleafWarning == "Overleaf compatibility warning"

\* state["errors"].append(error_msg)
AppendError(st, msg) == [st EXCEPT !.errors = Append(@, msg)]

\* Mutant: the handler swallows the exception without recording an error
OnExceptionMutant(st, k) == st

\* A node's "except Exception as e" handler
OnException(st, k) == AppendError(st, ErrorMsg[k])

\* state["current_step"] = name; state["step_count"] = k
Enter(st, k) == [st EXCEPT !.current_step = StageName[k], !.step_count = k]

\* state[<output of stage k>] = v
SetOutput(st, k, v) ==
    CASE k = 1 -> [st EXCEPT !.job_data = v]
      [] k = 2 -> [st EXCEPT !.profile_data = v]
      [] k = 3 -> [st EXCEPT !.aligned_data = v]
      [] OTHER -> [st EXCEPT !.optimized_data = v]

\* state["execution_time"][name] = execution_time
RecordTime(st, k) == [st EXCEPT !.execution_time = @ \cup {StageName[k]}]

\* Mutants: a guard that does not check (all of) the node's inputs
HasJobAndProfileMutant(st) == Truthy(st.job_data)
HasAlignedDataMutant(st) == TRUE
HasOptimizedDataMutant(st) == TRUE

\* The guards at the head of nodes 2..5
HasJobData(st) == Truthy(st.job_data)
HasJobAndProfile(st) == Truthy(st.job_data) /\ Truthy(st.profile_data)
HasAlignedData(st) == Truthy(st.aligned_data)
HasOptimizedData(st) == Truthy(st.optimized_data)

\* What a record-producing node does with the outcome o of its call statement
AfterCall(st, k, o) ==
    LET v == Return(k, o) IN
    IF o \in {"raise", "typeerror"} THEN OnException(st, k)
    ELSE IF ~Truthy(v)
         THEN IF v.kind = "None"
              THEN OnException(st, k)            \* None.get(...) raises
              ELSE AppendError(st, FailedMsg[k])
    ELSE IF v.error THEN AppendError(st, FailedMsg[k])
    ELSE LET stored == RecordTime(SetOutput(st, k, v), k) IN
         IF v.loggable THEN stored ELSE OnException(stored, k)

\* The arguments the retrieve_profile node passes to retrieve_relevant_profile
RagCallArgs == 2
\* The parameters ProfileRAGAgent.retrieve_relevant_profile declares (after self)
RepoRagParams == 1

\* Whether the call statement of node k binds to the installed collaborator
Binds(k) == k # 2 \/ rag_params = RagCallArgs

\* A record-producing node: _extract_job_data_node, _retrieve_profile_node,
\* _align_content_node, _optimize_ats_node.  guard is the node's check of its
\* inputs, B the behaviours of its collaborator.
RecordNode(k, guard, B) ==
    LET st == Enter(state, k) IN
    IF ~guard
    THEN /\ state' = AppendError(st, MissingMsg[k])
         /\ outcome' = [outcome EXCEPT ![k] = "skipped"]
         /\ UNCHANGED callLog
    ELSE IF ~Binds(k)
    THEN /\ state' = AfterCall(st, k, "typeerror")
         /\ outcome' = [outcome EXCEPT ![k] = "typeerror"]
         /\ UNCHANGED callLog
    ELSE \E b \in B :
         /\ state' = AfterCall(st, k, b)
         /\ outcome' = [outcome EXCEPT ![k] = b]
         /\ callLog' = Append(callLog, k)

\* The renderer node after the file name is built
AfterRender(st, b, vb) ==
    LET p == ReturnPath(b) IN
    IF b = "raise" THEN OnException(st, 5)
    ELSE IF p \in {NoPath, ""} \/ ~Exists(p) THEN AppendError(st, FailedMsg[5])
    ELSE LET stored == RecordTime([st EXCEPT !.latex_file_path = p], 5) IN
         IF b = "vanish" THEN OnException(stored, 5)     \* os.path.getsize raises
         ELSE CASE vb = "clean"    -> stored
                [] vb = "warnings" -> [stored EXCEPT !.warnings = Append(@, OverleafWarning)]
                [] OTHER           -> [stored EXCEPT !.warnings = Append(@, ValidationFailedMsg)]

-----------------------------------------------------------------------------
(* run_workflow                                                            *)

TotalSteps == 5

NoIntermediate ==
    [job_data |-> None, profile_data |-> None, aligned_data |-> None,
     optimized_data |-> None]

NoResult ==
    [returned |-> FALSE, success |-> FALSE, latex_file_path |-> NoPath,
     errors |-> <<>>, warnings |-> <<>>, execution_time |-> {},
     total_steps |-> 0, completed_steps |-> 0,
     has_intermediate |-> FALSE, intermediate |-> NoIntermediate]

\* Mutant: success decided by the artifact path alone
SuccessMutant(st) == st.latex_file_path # NoPath

\* result["success"]
Success(st) == Len(st.errors) = 0

\* The result built from the final state (the try branch)
FinalResult(st, withIntermediate) ==
    [returned |-> TRUE,
     success |-> Success(st),
     latex_file_path |-> st.latex_file_path,
     errors |-> st.errors,
     warnings |-> st.warnings,
     execution_time |-> st.execution_time,
     total_steps |-> TotalSteps,
     completed_steps |-> st.step_count,
     has_intermediate |-> withIntermediate,
     intermediate |-> IF withIntermediate
                      THEN [job_data |-> st.job_data, profile_data |-> st.profile_data,
                            aligned_data |-> st.aligned_data,
                            optimized_data |-> st.optimized_data]
                      ELSE NoIntermediate]

\* The result of the "except Exception" branch of run_workflow
FallbackResult ==
    [returned |-> TRUE, success |-> FALSE, latex_file_path |-> NoPath,
     errors |-> <<WorkflowFailedMsg>>, warnings |-> <<>>,
     execution_time |-> {"total"},
     total_steps |-> TotalSteps, completed_steps |-> 0,
     has_intermediate |-> FALSE, intermediate |-> NoIntermediate]

Unreached == [k \in Stages |-> "unreached"]

\* run_workflow is called: the initial state is built
Start ==
    /\ pc \in {"idle", "done"}
    /\ \E u \in JobUrls, p \in ProfileIds, w \in BOOLEAN :
         /\ state' = InitialState(u, p)
         /\ want_intermediate' = w
    /\ outcome' = Unreached
    /\ callLog' = <<>>
    /\ result' = NoResult
    /\ pc' = "invoke"
    /\ UNCHANGED <<race, ats, graph, rag_params, disk, nextId, lastRet, lastOp>>

\* workflow_graph.invoke on the compiled LangGraph: the entry point runs next
InvokeGraph ==
    /\ pc = "invoke" /\ graph = "langgraph"
    /\ pc' = StageName[1]
    /\ UNCHANGED <<race, ats, graph, rag_params, want_intermediate, state, outcome, callLog,
                   result, disk, nextId, lastRet, lastOp>>

\* MockCompiledGraph.invoke returns {}: final_state["execution_time"] raises
\* KeyError and run_workflow returns the result of its except branch
InvokeMockGraph ==
    /\ pc = "invoke" /\ graph = "mock"
    /\ result' = FallbackResult
    /\ pc' = "done"
    /\ UNCHANGED <<race, ats, graph, rag_params, want_intermediate, state, outcome, callLog,
                   disk, nextId, lastRet, lastOp>>

ExtractJobDataNode ==
    /\ pc = StageName[1]
    /\ RecordNode(1, TRUE, JobBehaviours)
    /\ pc' = StageName[2]
    /\ UNCHANGED <<race, ats, graph, rag_params, want_intermediate, result, disk, nextId,
                   lastRet, lastOp>>

RetrieveProfileNode ==
    /\ pc = StageName[2]
    /\ RecordNode(2, HasJobData(state), RecordBehaviours)
    /\ pc' = StageName[3]
    /\ UNCHANGED <<race, ats, graph, rag_params, want_intermediate, result, disk, nextId,
                   lastRet, lastOp>>

AlignContentNode ==
    /\ pc = StageName[3]
    /\ RecordNode(3, HasJobAndProfile(state), RecordBehaviours)
    /\ pc' = StageName[4]
    /\ UNCHANGED <<race, ats, graph, rag_params, want_intermediate, result, disk, nextId,
                   lastRet, lastOp>>

OptimizeAtsNode ==
    /\ pc = StageName[4]
    /\ RecordNode(4, HasAlignedData(state), RecordBehaviours)
    /\ pc' = StageName[5]
    /\ UNCHANGED <<race, ats, graph, rag_params, want_intermediate, result, disk, nextId,
                   lastRet, lastOp>>

GenerateLatexNode ==
    /\ pc = StageName[5]
    /\ LET st == Enter(state, 5) IN
       IF ~HasOptimizedData(st)
       THEN /\ state' = AppendError(st, MissingMsg[5])
            /\ outcome' = [outcome EXCEPT ![5] = "skipped"]
            /\ UNCHANGED callLog
       ELSE IF st.job_data.kind = "None" \/ st.job_data.title_none
       THEN \* building the file name from job_title None raises
            /\ state' = OnException(st, 5)
            /\ outcome' = [outcome EXCEPT ![5] = "filename_error"]
            /\ UNCHANGED callLog
       ELSE \E b \in RenderBehaviours, vb \in ValidationBehaviours :
            /\ state' = AfterRender(st, b, vb)
            /\ outcome' = [outcome EXCEPT ![5] = b]
            /\ callLog' = Append(callLog, 5)
    /\ pc' = "finish"
    /\ UNCHANGED <<race, ats, graph, rag_params, want_intermediate, result, disk, nextId,
                   lastRet, lastOp>>

\* invoke returned the final state: total time, result dictionary
Finish ==
    /\ pc = "finish"
    /\ state' = [state EXCEPT !.execution_time = @ \cup {"total"}]
    /\ result' = FinalResult(state', want_intermediate)
    /\ pc' = "done"
    /\ UNCHANGED <<race, ats, graph, rag_params, want_intermediate, outcome, callLog, disk,
                   nextId, lastRet, lastOp>>

-----------------------------------------------------------------------------
(* WorkflowContextStore                                                    *)

MaxContexts == 2        \* contexts created
MaxOps == 3             \* create_context / update_context calls performed

\* Field names of WorkflowContextModel other than context_id
DataFields == {"job_data", "profile_data", "aligned_data", "optimized_data"}
StringFields == {"job_url", "profile_id"}
ModelFields == StringFields \cup DataFields \cup {"latex_file_path", "metadata"}

MetaKeys == {"k1", "k2"}
MetaVals == {"a", "b"}
EmptyMeta == [k \in {} |-> "a"]

\* Record values a caller may store in a data field
DataValues == { Dict(1, FALSE, FALSE, TRUE, FALSE), Dict(2, FALSE, FALSE, TRUE, FALSE) }

\* WorkflowContextModel(context_id=..., job_url=..., profile_id=..., metadata={})
NewContext(id, url, pid) ==
    [context_id |-> id, job_url |-> url, profile_id |-> pid,
     job_data |-> None, profile_data |-> None, aligned_data |-> None,
     optimized_data |-> None, latex_file_path |-> NoPath, metadata |-> EmptyMeta]

NoContext == NewContext(0, "", "")

\* JSON tokens
JNull == [t |-> "null", s |-> "", v |-> None, n |-> 0]
JStr(x) == [t |-> "string", s |-> x, v |-> None, n |-> 0]
JObj(x) == [t |-> "object", s |-> "", v |-> x, n |-> 0]
JId(i) == [t |-> "string", s |-> "uuid", v |-> None, n |-> i]

\* json encoding of an Optional[Dict] and of an Optional[str]
EncData(x) == IF x.kind = "None" THEN JNull ELSE JObj(x)
EncPath(x) == IF x = NoPath THEN JNull ELSE JStr(x)
DecData(j) == IF j.t = "null" THEN None ELSE j.v
DecPath(j) == IF j.t = "null" THEN NoPath ELSE j.s

\* context.model_dump() written by json.dump: the members of the JSON object
ModelDump(c) ==
    [top |-> [f \in (ModelFields \ {"metadata"}) \cup {"context_id"} |->
                CASE f = "context_id"      -> JId(c.context_id)
                  [] f = "job_url"         -> JStr(c.job_url)
                  [] f = "profile_id"      -> JStr(c.profile_id)
                  [] f = "job_data"        -> EncData(c.job_data)
                  [] f = "profile_data"    -> EncData(c.profile_data)
                  [] f = "aligned_data"    -> EncData(c.aligned_data)
                  [] f = "optimized_data"  -> EncData(c.optimized_data)
                  [] OTHER                 -> EncPath(c.latex_file_path)],
     metadata |-> [k \in DOMAIN c.metadata |-> JStr(c.metadata[k])]]

\* json.load and WorkflowContextModel(**raw)
ParseContext(file) ==
    [context_id |-> file.top["context_id"].n,
     job_url |-> file.top["job_url"].s,
     profile_id |-> file.top["profile_id"].s,
     job_data |-> DecData(file.top["job_data"]),
     profile_data |-> DecData(file.top["profile_data"]),
     aligned_data |-> DecData(file.top["aligned_data"]),
     optimized_data |-> DecData(file.top["optimized_data"]),
     latex_file_path |-> DecPath(file.top["latex_file_path"]),
     metadata |-> [k \in DOMAIN file.metadata |-> file.metadata[k].s]]

\* Mutant: every context is written to the same file
PathMutant(id) == 1

\* _path: the file of a context id
Path(id) == id

\* _write: the file of context.context_id is overwritten
Write(d, c) ==
    LET path == Path(c.context_id) IN
    [p \in DOMAIN d \cup {path} |-> IF p = path THEN ModelDump(c) ELSE d[p]]

\* load_context on an existing file
Load(d, id) == ParseContext(d[Path(id)])

\* Keyword arguments of update_context: one entry per name a caller may pass.
\* Absent marks a name that is not passed; None is a passed None.
AbsentStr == "<absent>"
AbsentData == [kind |-> "absent", src |-> 0, empty |-> FALSE, error |-> FALSE,
               loggable |-> FALSE, title_none |-> FALSE]
AbsentMeta == [given |-> FALSE, none |-> FALSE, map |-> EmptyMeta]
NoneMeta == [given |-> TRUE, none |-> TRUE, map |-> EmptyMeta]
GivenMeta(m) == [given |-> TRUE, none |-> FALSE, map |-> m]
AbsentList == [given |-> FALSE, items |-> <<>>]
GivenList(l) == [given |-> TRUE, items |-> l]

NoArgs ==
    [job_url |-> AbsentStr, profile_id |-> AbsentStr,
     job_data |-> AbsentData, profile_data |-> AbsentData,
     aligned_data |-> AbsentData, optimized_data |-> AbsentData,
     latex_file_path |-> AbsentStr, metadata |-> AbsentMeta,
     execution_time |-> AbsentMeta,
     errors |-> AbsentList, warnings |-> AbsentList,
     model_dump |-> FALSE]

\* updates = {k: v for k, v in fields.items() if v is not None}
GivenStr(x) == x # AbsentStr /\ x # NoPath
GivenData(x) == x.kind = "dict"

\* Mutant: the given metadata replaces the stored metadata
MergeMetaMutant(old, new) == new

\* context.metadata.update(value)
MergeMeta(old, new) ==
    [k \in DOMAIN old \cup DOMAIN new |-> IF k \in DOMAIN new THEN new[k] ELSE old[k]]

\* hasattr(context, key): the attributes of a WorkflowContextModel are its
\* declared fields
HasAttr(c, key) == key \in DOMAIN c

\* The loop of update_context over the given fields: metadata is merged, a
\* name the model has is set, any other name (execution_time, errors,
\* warnings) is skipped
ApplyUpdates(c, a) ==
    [context_id |-> c.context_id,
     job_url |-> IF GivenStr(a.job_url) THEN a.job_url ELSE c.job_url,
     profile_id |-> IF GivenStr(a.profile_id) THEN a.profile_id ELSE c.profile_id,
     job_data |-> IF GivenData(a.job_data) THEN a.job_data ELSE c.job_data,
     profile_data |-> IF GivenData(a.profile_data) THEN a.profile_data ELSE c.profile_data,
     aligned_data |-> IF GivenData(a.aligned_data) THEN a.aligned_data ELSE c.aligned_data,
     optimized_data |-> IF GivenData(a.optimized_data) THEN a.optimized_data
                        ELSE c.optimized_data,
     latex_file_path |-> IF GivenStr(a.latex_file_path) THEN a.latex_file_path
                         ELSE c.latex_file_path,
     metadata |-> IF a.metadata.given /\ ~a.metadata.none
                  THEN MergeMeta(c.metadata, a.metadata.map) ELSE c.metadata]

\* Argument values a caller passes
StrArgs(f) == IF f = "latex_file_path" THEN {GoodPath, NoPath}
              ELSE IF f = "job_url" THEN {"https://b", NoPath}
              ELSE {"user_b"}
DataArgs == DataValues \cup {None}
MetaArgs == { AbsentMeta, NoneMeta,
              GivenMeta([k \in {"k1"} |-> "a"]),
              GivenMeta([k \in {"k1", "k2"} |-> IF k = "k1" THEN "b" ELSE "a"]) }

\* args with the field f passed as x
WithField(a, f, x) ==
    CASE f = "job_url"         -> [a EXCEPT !.job_url = x]
      [] f = "profile_id"      -> [a EXCEPT !.profile_id = x]
      [] f = "latex_file_path" -> [a EXCEPT !.latex_file_path = x]
      [] f = "job_data"        -> [a EXCEPT !.job_data = x]
      [] f = "profile_data"    -> [a EXCEPT !.profile_data = x]
      [] f = "aligned_data"    -> [a EXCEPT !.aligned_data = x]
      [] OTHER                 -> [a EXCEPT !.optimized_data = x]

\* The calls made: a metadata argument alone, an execution_time, errors or
\* warnings argument alone, or one named field with or without a metadata map
\* Mutant: no keyword makes setattr raise
SetAttrRaisesMutant(a) == FALSE

\* A keyword that names no field of WorkflowContextModel but an attribute
\* every model object has (its method model_dump, a value other than None
\* given): hasattr is true and pydantic's __setattr__ raises ValueError,
\* "object has no field"
SetAttrRaises(a) == a.model_dump

UpdateArgs ==
    LET metaOnly == { [NoArgs EXCEPT !.metadata = m] : m \in MetaArgs }
        timeOnly == { [NoArgs EXCEPT !.execution_time = GivenMeta([k \in {"k1"} |-> "a"])] }
        listOnly == { [NoArgs EXCEPT !.errors = GivenList(<<"e1">>)],
                      [NoArgs EXCEPT !.warnings = GivenList(<<"w1">>)] }
        methodOnly == { [NoArgs EXCEPT !.model_dump = TRUE] }
        base == { NoArgs, [NoArgs EXCEPT !.metadata = GivenMeta([k \in {"k1"} |-> "a"])] }
    IN metaOnly \cup timeOnly \cup listOnly \cup methodOnly
       \cup UNION { { WithField(a, f, x) : x \in StrArgs(f) } :
                    a \in base, f \in StringFields \cup {"latex_file_path"} }
       \cup UNION { { WithField(a, f, x) : x \in DataArgs } : a \in base, f \in DataFields }

ContextIds == 1..MaxContexts

NoOp == [op |-> "none", id |-> 0, raised |-> FALSE, args |-> NoArgs,
         pre |-> NoContext, ret |-> NoContext, n |-> 0]

\* create_context(job_url, profile_id)
CreateContext ==
    /\ nextId <= MaxContexts
    /\ lastOp.n < MaxOps
    /\ \E url \in {"https://a"}, pid \in {"user_a"} :
         LET c == NewContext(nextId, url, pid) IN
         /\ disk' = Write(disk, c)
         /\ lastRet' = [i \in DOMAIN lastRet \cup {nextId} |->
                          IF i = nextId THEN c ELSE lastRet[i]]
         /\ lastOp' = [op |-> "create", id |-> nextId, raised |-> FALSE,
                       args |-> NoArgs, pre |-> NoContext, ret |-> c,
                       n |-> lastOp.n + 1]
    /\ nextId' = nextId + 1
    /\ UNCHANGED <<wfVars, race, ats>>

\* update_context(context_id, **fields)
UpdateContext ==
    /\ lastOp.n < MaxOps
    /\ \E id \in ContextIds, a \in UpdateArgs :
         IF Path(id) \notin DOMAIN disk
         THEN \* load_context raises FileNotFoundError
              /\ lastOp' = [op |-> "update", id |-> id, raised |-> TRUE, args |-> a,
                            pre |-> NoContext, ret |-> NoContext, n |-> lastOp.n + 1]
              /\ UNCHANGED <<disk, lastRet>>
         ELSE IF SetAttrRaises(a)
         THEN \* setattr raises ValueError before _write
              /\ lastOp' = [op |-> "update", id |-> id, raised |-> TRUE, args |-> a,
                            pre |-> Load(disk, id), ret |-> NoContext, n |-> lastOp.n + 1]
              /\ UNCHANGED <<disk, lastRet>>
         ELSE LET c == Load(disk, id)
                  u == ApplyUpdates(c, a)
              IN /\ disk' = Write(disk, u)
                 /\ lastRet' = [lastRet EXCEPT ![id] = u]
                 /\ lastOp' = [op |-> "update", id |-> id, raised |-> FALSE,
                               args |-> a, pre |-> c, ret |-> u, n |-> lastOp.n + 1]
    /\ UNCHANGED nextId
    /\ UNCHANGED <<wfVars, race, ats>>

\* load_context(context_id)
LoadContext ==
    /\ \E id \in ContextIds :
         IF Path(id) \notin DOMAIN disk
         THEN lastOp' = [op |-> "load", id |-> id, raised |-> TRUE, args |-> NoArgs,
                         pre |-> NoContext, ret |-> NoContext, n |-> lastOp.n]
         ELSE lastOp' = [op |-> "load", id |-> id, raised |-> FALSE, args |-> NoArgs,
                         pre |-> NoContext, ret |-> Load(disk, id), n |-> lastOp.n]
    /\ UNCHANGED <<disk, nextId, lastRet>>
    /\ UNCHANGED <<wfVars, race, ats>>

-----------------------------------------------------------------------------
(* ATSOptimizerAgent: arithmetic                                            *)

\* Scores are fractions <<numerator, denominator>> in lowest terms with a
\* positive denominator, so that every comparison and sum is exact
RECURSIVE GCD(_, _)
GCD(a, b) == IF b = 0 THEN a ELSE GCD(b, a % b)
Abs(x) == IF x < 0 THEN -x ELSE x
Frac(n, d) ==
    LET g == GCD(Abs(n), Abs(d))
        sgn == IF d < 0 THEN -1 ELSE 1
    IN <<sgn * (n \div g), sgn * (d \div g)>>
FAdd(x, y) == Frac(x[1] * y[2] + y[1] * x[2], x[2] * y[2])
FSub(x, y) == Frac(x[1] * y[2] - y[1] * x[2], x[2] * y[2])
FMul(x, y) == Frac(x[1] * y[1], x[2] * y[2])
FLeq(x, y) == x[1] * y[2] <= y[1] * x[2]
FLt(x, y) == x[1] * y[2] < y[1] * x[2]
FMin(x, y) == IF FLeq(x, y) THEN x ELSE y
FMax(x, y) == IF FLeq(x, y) THEN y ELSE x
Dec(n) == Frac(n, 1000)         \* the decimal literal n/1000
One == Frac(1, 1)
Zero == Frac(0, 1)

\* int(x) of Python: truncation toward zero
IntOf(x) == IF x[1] >= 0 THEN x[1] \div x[2] ELSE -((-x[1]) \div x[2])

\* round(x) of the composite formula: the nearest integer, halves upward
RoundOf(x) == (2 * x[1] + x[2]) \div (2 * x[2])

-----------------------------------------------------------------------------
(* ATSOptimizerAgent.calculate_keyword_density                              *)

\* Sizes of the job keyword set
JobKeywordTotals == {0, 1, 2, 3, 4, 5, 10, 25}
\* (matched, total): len(matching_keywords), len(job_keywords)
KeywordCounts == { <<m, t>> \in (0..25) \X JobKeywordTotals : m <= t }

\* Mutant: the curve without its 0.40 breakpoint
DensityCurveMutant(raw_density) ==
    IF FLeq(Dec(700), raw_density)
    THEN FAdd(Dec(950), FMul(FSub(raw_density, Dec(700)), Dec(150)))
    ELSE IF FLeq(Dec(600), raw_density)
    THEN FAdd(Dec(900), FMul(FSub(raw_density, Dec(600)), Dec(500)))
    ELSE IF FLeq(Dec(500), raw_density)
    THEN FAdd(Dec(850), FMul(FSub(raw_density, Dec(500)), Dec(500)))
    ELSE FMul(raw_density, Dec(1875))

\* The scoring curve applied to raw_density
DensityCurve(raw_density) ==
    IF FLeq(Dec(700), raw_density)
    THEN FAdd(Dec(950), FMul(FSub(raw_density, Dec(700)), Dec(150)))
    ELSE IF FLeq(Dec(600), raw_density)
    THEN FAdd(Dec(900), FMul(FSub(raw_density, Dec(600)), Dec(500)))
    ELSE IF FLeq(Dec(500), raw_density)
    THEN FAdd(Dec(850), FMul(FSub(raw_density, Dec(500)), Dec(500)))
    ELSE IF FLeq(Dec(400), raw_density)
    THEN FAdd(Dec(750), FMul(FSub(raw_density, Dec(400)), Dec(1000)))
    ELSE FMul(raw_density, Dec(1875))

\* density_score for len(matching_keywords) = matched, len(job_keywords) = total
calculate_keyword_density(matched, total) ==
    IF total = 0
    THEN One
    ELSE FMin(One, DensityCurve(Frac(matched, total)))

-----------------------------------------------------------------------------
(* ATSOptimizerAgent: resume content                                        *)

\* A piece of text: its length, the number of its characters outside
\* [\w\s\-.,()\[\]], whether it holds an image indicator, a table indicator,
\* and which job keywords (by their rank in sorted order) are among its
\* lower-cased words
Text(len, spec, img, tab, words) ==
    [len |-> len, spec |-> spec, img |-> img, tab |-> tab, words |-> words]
PlainText(len) == Text(len, 0, FALSE, FALSE, {})

\* The value of a key of the resume content: has = the key is in the
\* dictionary; form = "str", "dict" (a dict with 'aligned_skills'), "list" or
\* "none" (the value None); n = its number of elements; text = the pieces of
\* text _resume_to_text takes from it, empty strings included
SecAbsent == [has |-> FALSE, form |-> "none", n |-> 0, text |-> <<>>]
SecNone == [has |-> TRUE, form |-> "none", n |-> 0, text |-> <<>>]
SecStr(t) == [has |-> TRUE, form |-> "str", n |-> t.len, text |-> <<t>>]
SecDict(items) == [has |-> TRUE, form |-> "dict", n |-> Len(items), text |-> items]
SecList(n, parts) == [has |-> TRUE, form |-> "list", n |-> n, text |-> parts]

\* bool(value): a dict holding 'aligned_skills' is never empty
NonEmpty(v) == v.has /\ (v.form = "dict" \/ (v.form # "none" /\ v.n > 0))

\* self.required_sections
required_sections == {"summary", "skills", "experience", "education"}

\* Mutant: a key counts as present whatever its value
IsPresentMutant(resume_content, section) == resume_content[section].has

\* section in resume_content and resume_content[section]
IsPresent(resume_content, section) ==
    resume_content[section].has /\ NonEmpty(resume_content[section])

\* check_section_presence(resume_content)
check_section_presence(resume_content) ==
    LET present_sections == { x \in required_sections : IsPresent(resume_content, x) }
        missing_sections == { x \in required_sections : ~IsPresent(resume_content, x) }
        present == Cardinality(present_sections)
        required == Cardinality(required_sections)
    IN [section_score |->
            IF present = required THEN One
            ELSE IF present >= required - 1 THEN Dec(950)
            ELSE FAdd(Dec(850), FMul(Frac(present, required), Dec(100))),
        present_sections |-> present_sections,
        missing_sections |-> missing_sections,
        total_required |-> required,
        present_count |-> present]

-----------------------------------------------------------------------------
(* ATSOptimizerAgent.check_formatting_rules                                 *)

\* filter(None, text_parts): the non-empty pieces, in order
RECURSIVE NonEmptyParts(_)
NonEmptyParts(parts) ==
    IF parts = <<>> THEN <<>>
    ELSE IF Head(parts).len = 0 THEN NonEmptyParts(Tail(parts))
    ELSE <<Head(parts)>> \o NonEmptyParts(Tail(parts))

\* _resume_to_text: the pieces joined by newlines, one line per piece
\* (the summary only if it is non-empty; None values give nothing)
_resume_to_text(resume_content) ==
    NonEmptyParts(
        (IF NonEmpty(resume_content.summary) THEN resume_content.summary.text ELSE <<>>)
        \o resume_content.skills.text
        \o resume_content.experience.text
        \o resume_content.education.text)

RECURSIVE SumLen(_)
SumLen(parts) == IF parts = <<>> THEN 0 ELSE Head(parts).len + SumLen(Tail(parts))
RECURSIVE SumSpec(_)
SumSpec(parts) == IF parts = <<>> THEN 0 ELSE Head(parts).spec + SumSpec(Tail(parts))

\* len(resume_text): the pieces and the newlines between them
TextLen(parts) == IF parts = <<>> THEN 0 ELSE SumLen(parts) + Len(parts) - 1
\* len(resume_text.split('\n')): the empty text splits into one empty line
LineCount(parts) == IF parts = <<>> THEN 1 ELSE Len(parts)
LongLineLen == 100
LongLines(parts) == Cardinality({ i \in 1..Len(parts) : parts[i].len > LongLineLen })

\* The rules with an issue, from the four checks made
RulesBroken(parts) ==
    { r \in {"no_images", "no_tables", "simple_formatting", "standard_formatting"} :
        CASE r = "no_images" -> \E i \in 1..Len(parts) : parts[i].img
          [] r = "no_tables" -> \E i \in 1..Len(parts) : parts[i].tab
          [] r = "simple_formatting" -> 20 * SumSpec(parts) > TextLen(parts)
          [] OTHER -> 10 * LongLines(parts) > 3 * LineCount(parts) }

\* What one issue adds to issues_found: high 1, medium 0.5, low 0.25
IssueWeight(rule) ==
    CASE rule = "no_images" -> Frac(1, 1)
      [] rule = "no_tables" -> Frac(1, 2)
      [] rule = "simple_formatting" -> Frac(1, 2)
      [] OTHER -> Frac(1, 4)

RECURSIVE IssuesFound(_)
IssuesFound(rules) ==
    IF rules = {} THEN Zero
    ELSE LET r == CHOOSE x \in rules : TRUE
         IN FAdd(IssueWeight(r), IssuesFound(rules \ {r}))

\* len(self.formatting_rules)
total_checks == 7

\* Mutant: more than two issue units give the floor 0.85
FormattingScoreMutant(issues_found) ==
    IF issues_found = Zero THEN One
    ELSE IF FLeq(issues_found, Frac(1, 1)) THEN Dec(950)
    ELSE IF FLeq(issues_found, Frac(2, 1)) THEN Dec(900)
    ELSE Dec(850)

\* formatting_score from issues_found
FormattingScore(issues_found) ==
    IF issues_found = Zero THEN One
    ELSE IF FLeq(issues_found, Frac(1, 1)) THEN Dec(950)
    ELSE IF FLeq(issues_found, Frac(2, 1)) THEN Dec(900)
    ELSE FMax(Dec(850),
              FSub(One, FMul(FMul(issues_found, Frac(1, total_checks)), Dec(150))))

\* check_formatting_rules(resume_content)
check_formatting_rules(resume_content) ==
    LET parts == _resume_to_text(resume_content)
        rules == RulesBroken(parts)
    IN [formatting_score |-> FormattingScore(IssuesFound(rules)),
        formatting_issues |-> rules,
        issues_found |-> IssuesFound(rules),
        issues_count |-> Cardinality(rules),
        ats_friendly |-> rules = {}]

-----------------------------------------------------------------------------
(* ATSOptimizerAgent.__init__ and calculate_ats_score                       *)

\* An agent as __init__ stores it: the arguments are kept as given
Agent(target, kw, sec, fmt) ==
    [target_ats_score |-> target, keyword_density_weight |-> kw,
     section_weight |-> sec, formatting_weight |-> fmt]

\* ATSOptimizerAgent(): the default arguments
DefaultAgent == Agent(90, Dec(350), Dec(400), Dec(250))

\* Constructor calls: the defaults, weights that sum to 2, negative weights
Agents == { DefaultAgent,
            Agent(90, Dec(700), Dec(800), Dec(500)),
            Agent(90, Dec(-350), Dec(-400), Dec(-250)) }

\* The weighted sum is computed in double precision: for these weights and
\* scores the sum times 100 is an integer exactly but the double is a hair
\* closer to zero, and int() then truncates to the integer before it
FloatShort ==
    { <<Dec(350), Frac(3, 4), Frac(19, 20), Frac(19, 20)>>,
      <<Dec(350), Frac(3, 4), One, Frac(19, 20)>>,
      <<Dec(350), Frac(19, 20), Frac(17, 20), Frac(19, 20)>>,
      <<Dec(-350), Frac(3, 4), Frac(19, 20), Frac(19, 20)>>,
      <<Dec(-350), Frac(3, 4), One, Frac(19, 20)>>,
      <<Dec(-350), Frac(19, 20), Frac(17, 20), Frac(19, 20)>>,
      <<Dec(700), Frac(9, 20), Frac(19, 20), Frac(19, 20)>>,
      <<Dec(700), Frac(3, 4), Frac(19, 20), Frac(19, 20)>>,
      <<Dec(700), Frac(3, 4), One, Frac(19, 20)>>,
      <<Dec(700), Frac(19, 20), Frac(17, 20), Frac(19, 20)>>,
      <<Dec(700), One, Frac(17, 20), Frac(9, 10)>> }

\* overall_score * 100, exactly
OverallTimes100(agent, keyword_score, section_score, formatting_score) ==
    FMul(Frac(100, 1),
         FAdd(FAdd(FMul(keyword_score, agent.keyword_density_weight),
                   FMul(section_score, agent.section_weight)),
              FMul(formatting_score, agent.formatting_weight)))

\* ats_score = int(overall_score * 100)
AtsScore(agent, keyword_score, section_score, formatting_score) ==
    LET x == OverallTimes100(agent, keyword_score, section_score, formatting_score)
        key == <<agent.keyword_density_weight, keyword_score, section_score,
                 formatting_score>>
    IN IF key \in FloatShort
       THEN (IF x[1] > 0 THEN IntOf(x) - 1 ELSE IntOf(x) + 1)
       ELSE IntOf(x)

\* Mutant: the Good cutoff is read as the Excellent cutoff
CategoryMutant(ats_score) ==
    IF ats_score >= 80 THEN "Excellent"
    ELSE IF ats_score >= 70 THEN "Fair"
    ELSE "Poor"

\* category from ats_score
Category(ats_score) ==
    IF ats_score >= 90 THEN "Excellent"
    ELSE IF ats_score >= 80 THEN "Good"
    ELSE IF ats_score >= 70 THEN "Fair"
    ELSE "Poor"

\* status from ats_score
Status(ats_score) ==
    IF ats_score >= 90 THEN "ATS Optimized"
    ELSE IF ats_score >= 80 THEN "Minor Improvements Needed"
    ELSE IF ats_score >= 70 THEN "Moderate Improvements Needed"
    ELSE "Major Improvements Required"

\* calculate_ats_score(keyword_analysis, section_analysis, formatting_analysis)
calculate_ats_score(agent, keyword_score, section_score, formatting_score) ==
    LET ats_score == AtsScore(agent, keyword_score, section_score, formatting_score)
    IN [ats_score |-> ats_score,
        category |-> Category(ats_score),
        status |-> Status(ats_score)]

-----------------------------------------------------------------------------
(* ATSOptimizerAgent.extract_resume_keywords and auto_fix_issues            *)

\* The job keywords among the words of the pieces
RECURSIVE WordsOf(_)
WordsOf(parts) ==
    IF parts = <<>> THEN {} ELSE Head(parts).words \cup WordsOf(Tail(parts))

\* extract_resume_keywords(resume_content), restricted to job keywords: the
\* summary is read if it is a string, skills if a dict with 'aligned_skills'
\* or a list, experience and education if lists
extract_resume_keywords(resume_content) ==
    WordsOf((IF resume_content.summary.form = "str"
             THEN resume_content.summary.text ELSE <<>>)
            \o resume_content.skills.text
            \o resume_content.experience.text
            \o resume_content.education.text)

\* keyword_analysis for job keywords 1..total: the matched and the missing
\* keywords and the density score
KeywordAnalysis(resume_keywords, total) ==
    LET matching_keywords == resume_keywords \cap (1..total)
    IN [density_score |-> calculate_keyword_density(Cardinality(matching_keywords), total),
        matching_keywords |-> matching_keywords,
        missing_keywords |-> (1..total) \ resume_keywords,
        total_job_keywords |-> total,
        matched_count |-> Cardinality(matching_keywords)]

\* The job keywords of one request are all of one make: a lower-case word
\* ("python"), a phrase ("machine learning", never equal to a single word of
\* the resume), or a token with a bar ("ci|cd")
KeywordKinds ==
    { [name |-> "word", len |-> 6, spec |-> 0, tab |-> FALSE, word |-> TRUE],
      [name |-> "phrase", len |-> 16, spec |-> 0, tab |-> FALSE, word |-> FALSE],
      [name |-> "bar", len |-> 5, spec |-> 1, tab |-> TRUE, word |-> FALSE] }

\* missing_keywords[:n]: the n lowest-ranked missing keywords
RECURSIVE FirstN(_, _)
FirstN(set, n) ==
    IF n = 0 \/ set = {} THEN {}
    ELSE LET lo == CHOOSE x \in set : \A y \in set : x <= y
         IN {lo} \cup FirstN(set \ {lo}, n - 1)

\* The keywords as text: one piece per keyword (a skills entry)
RECURSIVE KeywordItems(_, _)
KeywordItems(set, kind) ==
    IF set = {} THEN <<>>
    ELSE LET lo == CHOOSE x \in set : \A y \in set : x <= y
         IN <<Text(kind.len, kind.spec, FALSE, kind.tab,
                   IF kind.word THEN {lo} ELSE {})>>
            \o KeywordItems(set \ {lo}, kind)

\* "Professional with relevant experience and skills."
PlaceholderSummary == PlainText(49)

\* f"{summary} Experienced with {', '.join(keywords_to_add)}."
EnhancedSummary(summary, keywords_to_add, kind) ==
    LET n == Cardinality(keywords_to_add)
    IN Text(summary.len + 18 + n * kind.len + 2 * (n - 1) + 1,
            summary.spec + n * kind.spec,
            summary.img,
            summary.tab \/ kind.tab,
            summary.words \cup (IF kind.word THEN keywords_to_add ELSE {}))

\* auto_fix_issues(resume_content, keyword_analysis, section_analysis, _):
\* placeholders for missing sections whose key is absent, up to 5 missing
\* keywords appended to a string summary and up to 10 to the aligned_skills
\* list (when 1..20 keywords are missing), one header fix per section key.
\* given_content is the caller's resume_content after the call: the copy is
\* shallow, so the aligned_skills list that is extended is the caller's
auto_fix_issues(resume_content, keyword_analysis, section_analysis, kind) ==
    LET missing == section_analysis.missing_sections
        missing_keywords == keyword_analysis.missing_keywords
        Add(x) == x \in missing /\ ~resume_content[x].has
        c1 == [summary |-> IF Add("summary") THEN SecStr(PlaceholderSummary)
                           ELSE resume_content.summary,
               skills |-> IF Add("skills")
                          THEN SecDict(KeywordItems(FirstN(missing_keywords, 10), kind))
                          ELSE resume_content.skills,
               experience |-> IF Add("experience") THEN SecList(0, <<>>)
                              ELSE resume_content.experience,
               education |-> IF Add("education") THEN SecList(0, <<>>)
                             ELSE resume_content.education]
        manageable == missing_keywords # {} /\ Cardinality(missing_keywords) <= 20
        enhance == manageable /\ c1.summary.has /\ c1.summary.form = "str"
        new_keywords == IF Add("skills") THEN {} ELSE FirstN(missing_keywords, 10)
        extend == /\ manageable
                  /\ c1.skills.has /\ c1.skills.form = "dict"
                  /\ new_keywords # {}
        Extended(v) == SecDict(v.text \o KeywordItems(new_keywords, kind))
        c2 == [c1 EXCEPT
                 !.summary = IF enhance
                             THEN SecStr(EnhancedSummary(c1.summary.text[1],
                                                         FirstN(missing_keywords, 5), kind))
                             ELSE @,
                 !.skills = IF extend THEN Extended(@) ELSE @]
        headers == Cardinality({ x \in required_sections : c2[x].has })
        B(b) == IF b THEN 1 ELSE 0
    IN [fixed_content |-> c2,
        fix_count |-> Cardinality({ x \in required_sections : Add(x) })
                      + B(enhance) + B(extend) + headers,
        given_content |-> IF extend
                          THEN [resume_content EXCEPT !.skills = Extended(@)]
                          ELSE resume_content]

-----------------------------------------------------------------------------
(* ATSOptimizerAgent.optimize_resume                                        *)

\* aligned_resume.get('aligned_sections', {}) of a record without the key
EmptyContent ==
    [summary |-> SecAbsent, skills |-> SecAbsent,
     experience |-> SecAbsent, education |-> SecAbsent]

NoAutoFix ==
    [ran |-> FALSE, fix_count |-> 0, recalculated |-> FALSE,
     updated_ats_score |-> 0, score_improvement |-> 0,
     fixed_content |-> EmptyContent, given_content |-> EmptyContent]

\* The except branch of optimize_resume
FailedResult ==
    [error |-> TRUE,
     ats_analysis |-> [ats_score |-> 0, category |-> "Error",
                       status |-> "Optimization Failed", meets_target |-> FALSE]]

\* Mutant: the score after the fix is reported as the score
ReportedScoreMutant(before, after) == after

\* ats_analysis reports ats_score_data, the score computed before any fix
ReportedScore(before, after) == before

\* Mutant: the fix runs whatever the score
RunFixMutant(ats_score, target_ats_score) == TRUE

\* if ats_score_data['ats_score'] < self.target_ats_score
RunFix(ats_score, target_ats_score) == ats_score < target_ats_score

\* 'summary': aligned_resume.get('summary', ''), 'skills':
\* aligned_resume.get('skills', []), ...: the sections of the result are read
\* from the top level of the record, with '' and [] for an absent key
ReturnedSections(top) ==
    [summary |-> IF top.summary.has THEN top.summary ELSE SecStr(PlainText(0)),
     skills |-> IF top.skills.has THEN top.skills ELSE SecList(0, <<>>),
     experience |-> IF top.experience.has THEN top.experience ELSE SecList(0, <<>>),
     education |-> IF top.education.has THEN top.education ELSE SecList(0, <<>>)]

\* The try branch of optimize_resume on resume_sections, the job keywords
\* 1..total and the top-level keys top of the record
Analyse(agent, resume_sections, total, kind, top) ==
    LET keyword_analysis == KeywordAnalysis(extract_resume_keywords(resume_sections), total)
        section_analysis == check_section_presence(resume_sections)
        formatting_analysis == check_formatting_rules(resume_sections)
        ats_score_data == calculate_ats_score(agent, keyword_analysis.density_score,
                                              section_analysis.section_score,
                                              formatting_analysis.formatting_score)
        run_fix == RunFix(ats_score_data.ats_score, agent.target_ats_score)
        fix == auto_fix_issues(resume_sections, keyword_analysis, section_analysis, kind)
        updated_ats_score ==
            calculate_ats_score(
                agent,
                KeywordAnalysis(extract_resume_keywords(fix.fixed_content),
                                total).density_score,
                check_section_presence(fix.fixed_content).section_score,
                check_formatting_rules(fix.fixed_content).formatting_score)
        score == ReportedScore(ats_score_data.ats_score, updated_ats_score.ats_score)
    IN [error |-> FALSE,
        ats_analysis |-> [ats_score |-> score,
                          category |-> ats_score_data.category,
                          status |-> ats_score_data.status,
                          meets_target |-> ats_score_data.ats_score >= agent.target_ats_score],
        sections |-> ReturnedSections(top),
        keyword_analysis |-> keyword_analysis,
        section_analysis |-> section_analysis,
        formatting_analysis |-> formatting_analysis,
        auto_fix_results |->
            IF ~run_fix THEN NoAutoFix
            ELSE [ran |-> TRUE,
                  fix_count |-> fix.fix_count,
                  recalculated |-> fix.fix_count > 0,
                  updated_ats_score |-> IF fix.fix_count > 0
                                        THEN updated_ats_score.ats_score ELSE 0,
                  score_improvement |-> IF fix.fix_count > 0
                                        THEN updated_ats_score.ats_score
                                             - ats_score_data.ats_score
                                        ELSE 0,
                  fixed_content |-> fix.fixed_content,
                  given_content |-> fix.given_content]]

\* optimize_resume(aligned_resume): None is read as {}, a record whose
\* 'aligned_sections' is None raises inside the try and gives the failure
\* result
optimize_resume(agent, aligned_resume) ==
    CASE aligned_resume.form = "none" ->
             Analyse(agent, EmptyContent, 0, aligned_resume.kind, EmptyContent)
      [] aligned_resume.form = "sections_none" -> FailedResult
      [] OTHER -> Analyse(agent, aligned_resume.sections, aligned_resume.total,
                          aligned_resume.kind, aligned_resume.top)

-----------------------------------------------------------------------------
(* ATSOptimizerAgent: the calls made                                        *)

\* Summaries: empty, short, just under and over the long-line length, with
\* an image tag, with a bar, with many special characters, with all of these
SummaryTexts ==
    { PlainText(0), PlainText(40), PlainText(95), PlainText(120),
      Text(40, 0, TRUE, FALSE, {}), Text(40, 1, FALSE, TRUE, {}),
      Text(40, 4, FALSE, FALSE, {}), Text(120, 8, TRUE, TRUE, {}) }
SummaryValues == {SecAbsent} \cup { SecStr(t) : t \in SummaryTexts }
SkillsValues ==
    { SecAbsent, SecDict(<<>>), SecDict(<<PlainText(6), PlainText(6)>>),
      SecList(0, <<>>), SecList(2, <<PlainText(6), PlainText(6)>>) }
\* one entry: a title and a description
ExperienceValues == { SecAbsent, SecList(0, <<>>), SecList(1, <<PlainText(10), PlainText(50)>>) }
\* one entry: a degree, no field, no institution
EducationValues ==
    { SecAbsent, SecList(0, <<>>), SecList(1, <<PlainText(10), PlainText(0), PlainText(0)>>) }

Contents ==
    { [summary |-> a, skills |-> b, experience |-> c, education |-> d] :
        a \in SummaryValues, b \in SkillsValues,
        c \in ExperienceValues, d \in EducationValues }

\* (matched, total) of the requests to optimize_resume
OptimizeCounts == { <<0, 0>>, <<0, 5>>, <<2, 5>>, <<5, 5>>, <<3, 10>>, <<0, 25>>, <<4, 25>> }

\* The content whose summary holds the job keywords 1..matched as words
WithWords(content, matched) ==
    IF matched = 0 THEN content
    ELSE [content EXCEPT !.summary.text[1].words = 1..matched]

\* The top-level section keys of a record: none (the record align_content
\* returns holds its sections under 'aligned_sections' only), or its own
\* summary and skills
TopLevels ==
    { EmptyContent,
      [summary |-> SecStr(PlainText(40)),
       skills |-> SecDict(<<PlainText(6), PlainText(6)>>),
       experience |-> SecAbsent, education |-> SecAbsent] }

\* The records given to optimize_resume: None, a record whose
\* aligned_sections is None, and records with sections and job keywords;
\* words are matched only by a non-empty string summary
AlignedResumes ==
    { [form |-> f, sections |-> EmptyContent, total |-> 0,
       kind |-> CHOOSE k \in KeywordKinds : k.name = "word", top |-> EmptyContent] :
         f \in {"none", "sections_none"} }
    \cup { [form |-> "dict", sections |-> WithWords(c, n[1]), total |-> n[2], kind |-> k,
            top |-> t] :
             c \in { x \in Contents : x.summary.form = "str" /\ x.summary.n > 0 },
             n \in OptimizeCounts, k \in KeywordKinds, t \in TopLevels }
    \cup { [form |-> "dict", sections |-> c, total |-> n[2], kind |-> k, top |-> t] :
             c \in { x \in Contents : ~(x.summary.form = "str" /\ x.summary.n > 0) },
             n \in { x \in OptimizeCounts : x[1] = 0 }, k \in KeywordKinds,
             t \in TopLevels }

\* Score values the three analyses produce
DensityScores == { calculate_keyword_density(c[1], c[2]) : c \in KeywordCounts }
SectionScores == { check_section_presence(c).section_score : c \in Contents }
FormattingScores ==
    { FormattingScore(IssuesFound(r)) :
        r \in SUBSET {"no_images", "no_tables", "simple_formatting", "standard_formatting"} }

NoAts == [op |-> "none"]

\* agent.calculate_keyword_density(resume_keywords, job_keywords)
CalculateKeywordDensity ==
    /\ ats = NoAts
    /\ \E c \in KeywordCounts :
         ats' = [op |-> "calculate_keyword_density", matched |-> c[1], total |-> c[2],
                 density_score |-> calculate_keyword_density(c[1], c[2])]
    /\ UNCHANGED <<wfVars, storeVars, race>>

\* agent.check_section_presence(resume_content)
CheckSectionPresence ==
    /\ ats = NoAts
    /\ \E c \in Contents :
         ats' = [op |-> "check_section_presence", resume_content |-> c,
                 result |-> check_section_presence(c)]
    /\ UNCHANGED <<wfVars, storeVars, race>>

\* agent.check_formatting_rules(resume_content)
CheckFormattingRules ==
    /\ ats = NoAts
    /\ \E c \in Contents :
         ats' = [op |-> "check_formatting_rules", resume_content |-> c,
                 result |-> check_formatting_rules(c)]
    /\ UNCHANGED <<wfVars, storeVars, race>>

\* agent.calculate_ats_score(...) on an agent built with any weights
CalculateAtsScore ==
    /\ ats = NoAts
    /\ \E agent \in Agents, k \in DensityScores, x \in SectionScores,
          f \in FormattingScores :
         ats' = [op |-> "calculate_ats_score", agent |-> agent, keyword_score |-> k,
                 section_score |-> x, formatting_score |-> f,
                 result |-> calculate_ats_score(agent, k, x, f)]
    /\ UNCHANGED <<wfVars, storeVars, race>>

\* agent.optimize_resume(aligned_resume)
OptimizeResume ==
    /\ ats = NoAts
    /\ \E agent \in Agents, r \in AlignedResumes :
         ats' = [op |-> "optimize_resume", agent |-> agent, aligned_resume |-> r,
                 result |-> optimize_resume(agent, r)]
    /\ UNCHANGED <<wfVars, storeVars, race>>

-----------------------------------------------------------------------------
(* Concurrent callers of update_context                                    *)

\* Two threads call update_context on one store
Callers == {"A", "B"}

NoCall == [pc |-> "idle", id |-> 0, args |-> NoArgs, ctx |-> NoContext,
           ret |-> NoContext, order |-> 0]
NoRace == [call |-> [p \in Callers |-> NoCall], writes |-> 0]

\* The updates the callers ask for
RaceArgs ==
    { [NoArgs EXCEPT !.job_data = Dict(1, FALSE, FALSE, TRUE, FALSE)],
      [NoArgs EXCEPT !.job_data = Dict(2, FALSE, FALSE, TRUE, FALSE)],
      [NoArgs EXCEPT !.profile_data = Dict(2, FALSE, FALSE, TRUE, FALSE)],
      [NoArgs EXCEPT !.metadata = GivenMeta([k \in {"k1"} |-> "a"])] }

\* Mutant: the updates are applied to the file as it is when it is written
UpdateFromMutant(d, c, a) == ApplyUpdates(Load(d, c.context_id), a)

\* The loop of update_context works on the context object loaded at the
\* start of the call; the file is not read again and nothing is locked
UpdateFrom(d, c, a) == ApplyUpdates(c, a)

\* update_context, first step: context = self.load_context(context_id)
RaceLoad ==
    /\ \E p \in Callers, id \in ContextIds, a \in RaceArgs :
         /\ race.call[p].pc = "idle"
         /\ IF Path(id) \notin DOMAIN disk
            THEN race' = [race EXCEPT !.call[p] =
                            [NoCall EXCEPT !.pc = "raised", !.id = id, !.args = a]]
            ELSE race' = [race EXCEPT !.call[p] =
                            [NoCall EXCEPT !.pc = "loaded", !.id = id, !.args = a,
                                           !.ctx = Load(disk, id)]]
    /\ UNCHANGED <<wfVars, storeVars, ats>>

\* update_context, second step: the updates are applied to the loaded
\* context, self._write(context) overwrites the file, the context is returned
RaceWrite ==
    /\ \E p \in Callers :
         /\ race.call[p].pc = "loaded"
         /\ LET c == race.call[p]
                u == UpdateFrom(disk, c.ctx, c.args)
            IN /\ disk' = Write(disk, u)
               /\ race' = [race EXCEPT !.call[p].pc = "returned",
                                       !.call[p].ret = u,
                                       !.call[p].order = race.writes + 1,
                                       !.writes = race.writes + 1]
    /\ UNCHANGED <<wfVars, nextId, lastRet, lastOp, ats>>

-----------------------------------------------------------------------------
(* Specifications                                                          *)

Init ==
    /\ pc = "idle"
    /\ graph \in {"langgraph", "mock"}
    /\ rag_params \in {RepoRagParams, RagCallArgs}
    /\ want_intermediate = FALSE
    /\ state = InitialState(Url("", "", "", 0), <<>>)
    /\ outcome = Unreached
    /\ callLog = <<>>
    /\ result = NoResult
    /\ disk = [p \in {} |-> ModelDump(NoContext)]
    /\ nextId = 1
    /\ lastRet = [i \in {} |-> NoContext]
    /\ lastOp = NoOp
    /\ race = NoRace
    /\ ats = NoAts

\* The orchestrator: runs of run_workflow on one ResumeWorkflow
Next ==
    \/ Start
    \/ InvokeGraph
    \/ InvokeMockGraph
    \/ ExtractJobDataNode
    \/ RetrieveProfileNode
    \/ AlignContentNode
    \/ OptimizeAtsNode
    \/ GenerateLatexNode
    \/ Finish

Spec == Init /\ [][Next]_vars

\* The context store under calls of its three methods
NextStore ==
    \/ CreateContext
    \/ UpdateContext
    \/ LoadContext

\* The store is used on its own: one wiring of the orchestrator suffices
InitStore == Init /\ graph = "langgraph" /\ rag_params = RagCallArgs

SpecStore == InitStore /\ [][NextStore]_vars

\* The context store under two callers whose update_context calls interleave
NextRace ==
    \/ CreateContext
    \/ RaceLoad
    \/ RaceWrite

SpecRace == InitStore /\ [][NextRace]_vars

\* One call of a method of an ATSOptimizerAgent
NextAts ==
    \/ CalculateKeywordDensity
    \/ CheckSectionPresence
    \/ CheckFormattingRules
    \/ CalculateAtsScore
    \/ OptimizeResume

SpecAts == InitStore /\ [][NextAts]_vars

-----------------------------------------------------------------------------
(* ContentAlignmentAgent.highlight_matching_experiences and align_content   *)

\* Words of the texts: 1..n are the job keywords job_keywords['all'] of a
\* request with n of them, the others are keywords of no job
TextWords == {1, 2, 3}
JobKeywordCounts == {0, 1, 2}

\* An experience entry: the keywords extract_keywords finds in its title and
\* in its description
Experience(title, description) == [title |-> title, description |-> description]
ExperienceKinds ==
    { Experience({1, 2}, {}), Experience({}, {1}), Experience({1, 3}, {1, 2}) }

\* The longest experience list given
MaxExperiences == 6

RECURSIVE ListsUpTo(_, _)
ListsUpTo(set, n) ==
    IF n = 0 THEN {<<>>}
    ELSE LET shorter == ListsUpTo(set, n - 1)
         IN shorter \cup { Append(l, x) : l \in { y \in shorter : Len(y) = n - 1 }, x \in set }

ExperienceLists == ListsUpTo(ExperienceKinds, MaxExperiences)

\* calculate_alignment_score(text, job_keywords): 0.0 for a text without
\* keywords or an empty keyword set, else the share of the job keywords found
calculate_alignment_score(text, n) ==
    IF text = {} \/ n = 0 THEN Zero
    ELSE FMin(Frac(Cardinality(text \cap (1..n)), n), One)

\* Mutant: title and description weigh the same
OverallAlignmentMutant(title_score, desc_score) ==
    FMul(FAdd(title_score, desc_score), Frac(1, 2))

\* alignment_score = (title_score + desc_score * 2) / 3
OverallAlignment(title_score, desc_score) ==
    FMul(FAdd(title_score, FMul(desc_score, Frac(2, 1))), Frac(1, 3))

\* enhanced_exp for the entry at position i of the list given
EnhancedExperience(exp, i, n) ==
    [given |-> i,
     title |-> exp.title,
     description |-> exp.description,
     alignment_score |-> OverallAlignment(calculate_alignment_score(exp.title, n),
                                          calculate_alignment_score(exp.description, n)),
     matching_keywords |-> (exp.title \cup exp.description) \cap (1..n)]

\* list.sort(key=alignment_score, reverse=True): stable, so an entry goes
\* behind the entries of equal score that came before it
RECURSIVE InsertByScore(_, _)
InsertByScore(sorted, e) ==
    IF sorted = <<>> THEN <<e>>
    ELSE IF FLt(Head(sorted).alignment_score, e.alignment_score)
    THEN <<e>> \o sorted
    ELSE <<Head(sorted)>> \o InsertByScore(Tail(sorted), e)

RECURSIVE SortedFrom(_, _, _, _)
SortedFrom(experiences, i, n, sorted) ==
    IF i > Len(experiences) THEN sorted
    ELSE SortedFrom(experiences, i + 1, n,
                    InsertByScore(sorted, EnhancedExperience(experiences[i], i, n)))

highlight_matching_experiences(experiences, n) == SortedFrom(experiences, 1, n, <<>>)

\* highlighted_experiences[:5]
TopExperiences == 5
align_content(experiences, n) ==
    LET highlighted_experiences == highlight_matching_experiences(experiences, n)
    IN [experience |-> SubSeq(highlighted_experiences, 1,
                              IF Len(highlighted_experiences) < TopExperiences
                              THEN Len(highlighted_experiences) ELSE TopExperiences)]

\* agent.highlight_matching_experiences(experiences, job_keywords)
HighlightMatchingExperiences ==
    /\ ats = NoAts
    /\ \E l \in ExperienceLists, n \in JobKeywordCounts :
         ats' = [op |-> "highlight_matching_experiences", experiences |-> l, keywords |-> n,
                 result |-> highlight_matching_experiences(l, n)]
    /\ UNCHANGED <<wfVars, storeVars, race>>

\* agent.align_content(job_data, profile_data): the experience section
AlignContent ==
    /\ ats = NoAts
    /\ \E l \in ExperienceLists, n \in JobKeywordCounts :
         ats' = [op |-> "align_content", experiences |-> l, keywords |-> n,
                 result |-> align_content(l, n)]
    /\ UNCHANGED <<wfVars, storeVars, race>>

NextAlign == HighlightMatchingExperiences \/ AlignContent

SpecAlign == InitStore /\ [][NextAlign]_vars

-----------------------------------------------------------------------------
(* ResumePlannerAgent.get_next_step                                         *)

\* self.workflow_steps
workflow_steps ==
    <<"JDExtractorAgent", "ProfileRAGAgent", "ContentAlignmentAgent",
      "ATSOptimizerAgent", "LaTeXFormatterAgent">>

\* The integers passed as current_step: -MaxStepInput..MaxStepInput
MaxStepInput == 60

\* if current_step < len(self.workflow_steps)
HasNextStep(current_step) == current_step < Len(workflow_steps)

\* get_next_step(current_step).  self.workflow_steps[current_step] is a
\* Python list index: 0-based, a negative index counts from the end, an index
\* outside -len..len-1 raises IndexError
get_next_step(current_step) ==
    LET n == Len(workflow_steps) IN
    IF ~HasNextStep(current_step)
    THEN [returned |-> "None", step |-> 0, agent |-> ""]
    ELSE IF current_step >= n \/ current_step < -n
    THEN [returned |-> "IndexError", step |-> 0, agent |-> ""]
    ELSE [returned |-> "step",
          step |-> current_step + 1,
          agent |-> workflow_steps[IF current_step >= 0 THEN current_step + 1
                                   ELSE n + current_step + 1]]

\* agent.get_next_step(current_step)
GetNextStep ==
    /\ ats = NoAts
    /\ \E current_step \in -MaxStepInput..MaxStepInput :
         ats' = [op |-> "get_next_step", current_step |-> current_step,
                 result |-> get_next_step(current_step)]
    /\ UNCHANGED <<wfVars, storeVars, race>>

NextPlanner == GetNextStep

SpecPlanner == InitStore /\ [][NextPlanner]_vars

-----------------------------------------------------------------------------
(* The record handed to the renderer                                       *)

\* The keys of the record the repository's agent of stage k returns when it
\* succeeds: ProfileRAGAgent.retrieve_relevant_profile, ContentAlignmentAgent
\* .align_content, ATSOptimizerAgent.optimize_resume
ResultKeys(k) ==
    CASE k = 2 -> {"profile_id", "relevant_skills", "relevant_experience",
                   "relevant_projects", "relevant_education", "similarity_scores",
                   "query_text", "total_matches", "retrieved_at"}
      [] k = 3 -> {"profile_id", "job_title", "alignment_metadata", "aligned_sections",
                   "recommendations"}
      [] k = 4 -> {"name", "email", "phone", "address", "linkedin", "github", "website",
                   "summary", "skills", "experience", "education", "projects",
                   "certifications", "awards", "languages", "profile_id", "job_title",
                   "ats_analysis", "keyword_analysis", "section_analysis",
                   "formatting_analysis", "suggestions", "auto_fix_results",
                   "optimization_metadata"}
      [] OTHER -> {}

\* The keys of a record held in the run state (a record carrying 'error' is
\* never stored there) and, per key, the stage whose agent made the value
RecordKeys(d) == IF Truthy(d) THEN ResultKeys(d.src) ELSE {}
RecordOf(d) == [x \in RecordKeys(d) |-> d.src]

\* The first argument of latex_agent.generate_latex_resume
RendererInput(st) == RecordOf(st.optimized_data)

-----------------------------------------------------------------------------
(* Properties of the orchestrator                                          *)

\* Collaborator k was entered in this run
Invoked(k) == \E i \in 1..Len(callLog) : callLog[i] = k

\* The output of stage k held in the run state
Output(st, k) ==
    CASE k = 1 -> st.job_data
      [] k = 2 -> st.profile_data
      [] k = 3 -> st.aligned_data
      [] OTHER -> st.optimized_data

\* Stage k failed: its call raised, or returned an empty value or a record
\* carrying 'error' (for the renderer: no path, or a path with no file)
FailKinds == {"raise", "typeerror", "empty", "none", "error", "nofile"}

\* C1: in every run and for every stage k, if stage k fails (its collaborator
\* raises, returns an empty value or returns a record carrying 'error') then
\* no collaborator of a later stage is invoked in that run, and the result
\* returned has success = FALSE.
C1_FailureStopsCollaborators ==
    \A k \in Stages :
        outcome[k] \in FailKinds =>
            /\ \A j \in Stages : j > k => ~Invoked(j)
            /\ pc = "done" => (result.returned /\ ~result.success)

C1_Witness ==
    /\ pc = "done"
    /\ outcome[3] = "error"
    /\ callLog = <<1, 2, 3>>
    /\ ~result.success

\* C2: for every result returned by run_workflow, success is true if and
\* only if the errors list is empty and latex_file_path is set.
C2_SuccessIffNoErrorsAndPath ==
    pc = "done" =>
        (result.success <=>
            (result.errors = <<>> /\ result.latex_file_path \notin {NoPath, ""}))

C2_Witness ==
    /\ pc = "done"
    /\ result.success
    /\ result.latex_file_path = GoodPath

C4_InvalidInputRejected ==
    (pc # "idle" /\ ~validate_inputs(state.job_url, state.profile_id).valid) =>
        /\ callLog = <<>>
        /\ pc = "done" => ~result.success

\* C5: within one run the collaborators are entered in the fixed order of the
\* stages, each at most once, and the collaborator of stage k+1 is entered
\* only when stage k has completed and its output is stored in the run state.
C5_SequentialStages ==
    /\ \A i, j \in 1..Len(callLog) : i < j => callLog[i] < callLog[j]
    /\ \A k \in 1..4 :
          Invoked(k + 1) =>
              /\ Invoked(k)
              /\ state.step_count >= k + 1
              /\ Truthy(Output(state, k))
              /\ Output(state, k) = Return(k, outcome[k])

C5_Witness ==
    /\ pc = "done"
    /\ callLog = <<1, 2, 3, 4, 5>>

\* What a collaborator does wrong when entered
CollaboratorFaults == {"badlog", "error", "empty", "none", "raise", "nofile", "vanish"}

\* C6 (as claimed): if no collaborator fails, the run ends with all five
\* collaborators invoked exactly once, success, no errors, completed_steps =
\* total_steps = 5, the renderer's path and the collaborators' outputs as
\* intermediate results.
C6_AllSucceedGivesSuccess ==
    (/\ pc = "done"
     /\ graph = "langgraph"
     /\ \A k \in Stages : outcome[k] \notin CollaboratorFaults) =>
        /\ callLog = <<1, 2, 3, 4, 5>>
        /\ result.success
        /\ result.errors = <<>>
        /\ result.completed_steps = TotalSteps
        /\ result.total_steps = TotalSteps
        /\ result.latex_file_path = GoodPath
        /\ result.has_intermediate =>
              \A k \in 1..4 : Output(result.intermediate, k) = Return(k, outcome[k])

\* Stage k is the first stage that failed in this run
FirstFailed(k) ==
    /\ outcome[k] \in FailKinds
    /\ \A j \in 1..(k - 1) : outcome[j] \notin FailKinds

\* C7 (as claimed): when a stage fails the pipeline halts there: the result's
\* completed_steps is the index of the failing stage and below total_steps,
\* errors[0] is that stage's message and no later stage adds an error.
C7_HaltsAtFailingStage ==
    \A k \in Stages :
        (pc = "done" /\ graph = "langgraph" /\ FirstFailed(k)) =>
            /\ result.completed_steps = k
            /\ result.completed_steps < result.total_steps
            /\ result.errors[1] \in {FailedMsg[k], ErrorMsg[k]}
            /\ Len(result.errors) = 1

\* C8 (as claimed): at every stage boundary the context store holds a
\* snapshot of the run that equals the in-memory run context.
C8_PersistedAfterEachStage ==
    (state.step_count >= 1 /\ pc # "idle") =>
        \E id \in DOMAIN disk :
            LET c == Load(disk, id) IN
            /\ \A k \in 1..4 : Output(c, k) = Output(state, k)
            /\ c.latex_file_path = state.latex_file_path

-----------------------------------------------------------------------------
(* Properties of the context store                                         *)

Named(a, f) ==
    IF f \in DataFields THEN a[f].kind = "dict"
    ELSE a[f] # AbsentStr /\ a[f] # NoPath

\* C10: update_context overwrites each scalar field named with a value,
\* merges a given metadata map key-wise into the stored one (stored keys not
\* named are kept, given keys win), leaves every other field unchanged, and
\* persists and returns the updated context.
C10_UpdateOverwritesAndMerges ==
    (lastOp.op = "update" /\ ~lastOp.raised) =>
        LET a == lastOp.args
            c == lastOp.pre
            r == lastOp.ret
        IN /\ r.context_id = c.context_id /\ r.context_id = lastOp.id
           /\ \A f \in ModelFields \ {"metadata"} :
                 r[f] = IF Named(a, f) THEN a[f] ELSE c[f]
           /\ IF a.metadata.given /\ ~a.metadata.none
              THEN /\ DOMAIN r.metadata = DOMAIN c.metadata \cup DOMAIN a.metadata.map
                   /\ \A k \in DOMAIN a.metadata.map : r.metadata[k] = a.metadata.map[k]
                   /\ \A k \in DOMAIN c.metadata \ DOMAIN a.metadata.map :
                         r.metadata[k] = c.metadata[k]
              ELSE r.metadata = c.metadata
           /\ Load(disk, lastOp.id) = r

C10_Witness ==
    /\ lastOp.op = "update" /\ ~lastOp.raised
    /\ lastOp.args.metadata.given /\ ~lastOp.args.metadata.none
    /\ "k2" \in DOMAIN lastOp.pre.metadata
    /\ "k2" \notin DOMAIN lastOp.args.metadata.map
    /\ lastOp.pre.metadata["k1"] # lastOp.args.metadata.map["k1"]
    /\ Named(lastOp.args, "job_data")
    /\ lastOp.ret.metadata["k2"] = "a"

\* C11 (as claimed): after update_context is given an execution_time map, an
\* errors list or a warnings list, the context a later load_context returns
\* has the given execution_time entries merged into its execution_time and
\* the given entries at the end of its errors and warnings lists.
C11_UpdateMergesTimeAndLists ==
    (lastOp.op = "update" /\ ~lastOp.raised) =>
        LET a == lastOp.args
            r == Load(disk, lastOp.id)
            EndsWith(l, e) == /\ Len(l) >= Len(e)
                              /\ SubSeq(l, Len(l) - Len(e) + 1, Len(l)) = e
        IN /\ a.execution_time.given =>
                 /\ HasAttr(r, "execution_time")
                 /\ \A k \in DOMAIN a.execution_time.map :
                       /\ k \in DOMAIN r.execution_time
                       /\ r.execution_time[k] = a.execution_time.map[k]
           /\ a.errors.given =>
                 HasAttr(r, "errors") /\ EndsWith(r.errors, a.errors.items)
           /\ a.warnings.given =>
                 HasAttr(r, "warnings") /\ EndsWith(r.warnings, a.warnings.items)

-----------------------------------------------------------------------------
(* Properties of concurrent updates                                        *)

\* Caller p's write is the latest write to its context
IsLastWriter(p) ==
    \A q \in Callers :
        (race.call[q].pc = "returned" /\ race.call[q].id = race.call[p].id)
            => race.call[q].order <= race.call[p].order

\* C12: nothing is locked, so the later write overwrites the earlier one:
\* the persisted snapshot is the context the last writer loaded with the last
\* writer's own updates applied, and nothing written between its load and its
\* write survives.
C12_LaterWriteOverwrites ==
    \A p \in Callers :
        (race.call[p].pc = "returned" /\ IsLastWriter(p)) =>
            LET a == race.call[p].args
                c == race.call[p].ctx
                r == Load(disk, race.call[p].id)
            IN /\ \A f \in ModelFields \ {"metadata"} :
                     r[f] = IF Named(a, f) THEN a[f] ELSE c[f]
               /\ r.metadata = IF a.metadata.given /\ ~a.metadata.none
                               THEN MergeMeta(c.metadata, a.metadata.map)
                               ELSE c.metadata

\* Lost update: both calls returned, q's returned context carries q's value,
\* p wrote later without naming that field, and the file no longer holds it
C12_Witness ==
    \E p, q \in Callers :
        /\ race.call[p].pc = "returned" /\ race.call[q].pc = "returned"
        /\ race.call[p].id = race.call[q].id
        /\ race.call[q].order < race.call[p].order
        /\ \E f \in DataFields :
              /\ Named(race.call[q].args, f)
              /\ race.call[q].ret[f] = race.call[q].args[f]
              /\ ~Named(race.call[p].args, f)
              /\ Load(disk, race.call[p].id)[f] # race.call[q].args[f]

-----------------------------------------------------------------------------
(* Properties of the ATS optimizer                                         *)

\* C13 (as claimed): whatever the record and whatever weights the agent was
\* built with, the ats_score that calculate_ats_score produces and that
\* optimize_resume reports lies in 0..100.
C13_ScoreInRange ==
    /\ ats.op = "calculate_ats_score" => ats.result.ats_score \in 0..100
    /\ ats.op = "optimize_resume" => ats.result.ats_analysis.ats_score \in 0..100

\* C14 (as claimed): in every result of optimize_resume, the failure result
\* included, category is Excellent for ats_score >= 90, Good for >= 80, Fair
\* for >= 70 and Poor otherwise.
C14_CategoryFromScore ==
    ats.op = "optimize_resume" =>
        LET score == ats.result.ats_analysis.ats_score
        IN ats.result.ats_analysis.category =
             (IF score >= 90 THEN "Excellent"
              ELSE IF score >= 80 THEN "Good"
              ELSE IF score >= 70 THEN "Fair"
              ELSE "Poor")

\* C15 (as claimed): density_score does not decrease when matched/total grows
\* (total > 0), is 1.0 when the job keyword set is empty, and is 1.0 when
\* every job keyword is matched.
C15_DensityMonotoneAndFull ==
    ats.op = "calculate_keyword_density" =>
        /\ ats.total = 0 => ats.density_score = One
        /\ ats.total > 0 =>
              \A c \in KeywordCounts :
                  (c[2] > 0 /\ ats.matched * c[2] <= c[1] * ats.total)
                      => FLeq(ats.density_score, calculate_keyword_density(c[1], c[2]))
        /\ ats.matched = ats.total => ats.density_score = One

\* The claimed curve in units of 1/4000, times total: raw = matched / total,
\* so that 4000 * total * (raw - 0.70) * 0.15 = (20 * matched - 14 * total) * 30
ClaimedCurveTimesTotal(matched, total) ==
    LET v == IF 10 * matched >= 7 * total
             THEN 3800 * total + (20 * matched - 14 * total) * 30
             ELSE IF 10 * matched >= 6 * total
             THEN 3600 * total + (20 * matched - 12 * total) * 100
             ELSE IF 10 * matched >= 5 * total
             THEN 3400 * total + (20 * matched - 10 * total) * 100
             ELSE IF 10 * matched >= 4 * total
             THEN 3000 * total + (20 * matched - 8 * total) * 200
             ELSE 7500 * matched
    IN IF v > 4000 * total THEN 4000 * total ELSE v

C20_ScoreIsRounded ==
    ats.op = "calculate_ats_score" =>
        /\ ats.result.ats_score =
              RoundOf(OverallTimes100(ats.agent, ats.keyword_score, ats.section_score,
                                      ats.formatting_score))
        /\ (/\ ats.agent = DefaultAgent
            /\ ats.keyword_score = One
            /\ ats.section_score = One
            /\ ats.formatting_score = One)
              => (ats.result.ats_score = 100 /\ ats.result.category = "Excellent")

\* C16 (as claimed): whenever optimize_resume runs the auto-fix,
\* score_improvement >= 0: the ats_score recomputed on the fixed record is at
\* least the ats_score computed before the fix.
C16_FixNeverLowersScore ==
    (ats.op = "optimize_resume" /\ ~ats.result.error /\ ats.result.auto_fix_results.ran) =>
        /\ ats.result.auto_fix_results.score_improvement >= 0
        /\ ats.result.auto_fix_results.recalculated =>
              ats.result.auto_fix_results.updated_ats_score
                  >= ats.result.ats_analysis.ats_score

-----------------------------------------------------------------------------
(* Properties of the record handed to the renderer                         *)

\* profile_record overlaid by aligned_record overlaid by optimized_record:
\* every key of any layer, with the value of the latest layer holding it
OverlayOf(profile_record, aligned_record, optimized_record) ==
    [x \in DOMAIN profile_record \cup DOMAIN aligned_record \cup DOMAIN optimized_record |->
        IF x \in DOMAIN optimized_record THEN optimized_record[x]
        ELSE IF x \in DOMAIN aligned_record THEN aligned_record[x]
        ELSE profile_record[x]]

\* C17 (as claimed): when the renderer is invoked, the record it is handed is
\* the overlay of profile_record, aligned_record and optimized_record: it has
\* every key of the three layers, each with the value of the latest layer
\* that holds the key.
C17_RendererGetsOverlay ==
    Invoked(5) =>
        RendererInput(state) =
            OverlayOf(RecordOf(state.profile_data), RecordOf(state.aligned_data),
                      RecordOf(state.optimized_data))

-----------------------------------------------------------------------------
(* Properties of the ATS optimizer: formatting and the auto-fix            *)

\* The claimed issue units of a resume text, in quarters: image marker 1,
\* table marker 0.5, over 5% special characters 0.5, over 30% long lines 0.25
ClaimedQuarterUnits(parts) ==
    (IF \E i \in 1..Len(parts) : parts[i].img THEN 4 ELSE 0)
    + (IF \E i \in 1..Len(parts) : parts[i].tab THEN 2 ELSE 0)
    + (IF 100 * SumSpec(parts) > 5 * TextLen(parts) THEN 2 ELSE 0)
    + (IF 100 * LongLines(parts) > 30 * LineCount(parts) THEN 1 ELSE 0)

C27_MoreIssuesNeverRaiseScore ==
    ats.op = "check_formatting_rules" =>
        \A c \in Contents :
            LET other == check_formatting_rules(c)
            IN (/\ ats.result.formatting_issues \subseteq other.formatting_issues
                /\ other.formatting_issues # ats.result.formatting_issues)
                  => FLeq(other.formatting_score, ats.result.formatting_score)

\* The resume sections optimize_resume read from the record it was given
GivenSections ==
    IF ats.aligned_resume.form = "dict" THEN ats.aligned_resume.sections ELSE EmptyContent

\* The ats_score of a resume content for the job keywords 1..total
ScoreOf(agent, content, total) ==
    calculate_ats_score(agent,
                        KeywordAnalysis(extract_resume_keywords(content), total).density_score,
                        check_section_presence(content).section_score,
                        check_formatting_rules(content).formatting_score).ats_score

\* C22: optimize_resume runs the auto-fix iff the initial ats_score is below
\* target_ats_score; the fixed record is one pass of auto_fix_issues on the
\* given sections, the updated score is the score of that record, and
\* score_improvement is the updated score minus the initial one; when the
\* initial score meets the target, auto_fix_results is None.
C22_SingleFixBelowTarget ==
    (ats.op = "optimize_resume" /\ ~ats.result.error) =>
        LET r == ats.result
            fix == r.auto_fix_results
            before == ScoreOf(ats.agent, GivenSections, r.keyword_analysis.total_job_keywords)
        IN /\ fix.ran <=> before < ats.agent.target_ats_score
           /\ ~fix.ran => fix = NoAutoFix
           /\ fix.ran =>
                 /\ fix.fixed_content =
                       auto_fix_issues(GivenSections, r.keyword_analysis, r.section_analysis,
                                       ats.aligned_resume.kind).fixed_content
                 /\ fix.recalculated
                 /\ fix.updated_ats_score =
                       ScoreOf(ats.agent, fix.fixed_content,
                               r.keyword_analysis.total_job_keywords)
                 /\ fix.score_improvement = fix.updated_ats_score - before

\* The fix ran, the score after it is still below the target, and a second
\* pass on the fixed record would change it again: no second pass was made
C22_Witness ==
    /\ ats.op = "optimize_resume" /\ ~ats.result.error
    /\ ats.agent = DefaultAgent
    /\ ats.result.auto_fix_results.ran
    /\ ats.result.auto_fix_results.score_improvement > 0
    /\ ats.result.auto_fix_results.updated_ats_score < ats.agent.target_ats_score
    /\ LET fixed == ats.result.auto_fix_results.fixed_content
           total == ats.result.keyword_analysis.total_job_keywords
       IN auto_fix_issues(fixed,
                          KeywordAnalysis(extract_resume_keywords(fixed), total),
                          check_section_presence(fixed),
                          ats.aligned_resume.kind).fixed_content # fixed

\* C26 (as claimed): after optimize_resume returns with the auto-fix run, the
\* caller's resume sections, the summary and the skills.aligned_skills list
\* among them, are what they were before the call.
C26_GivenRecordUnchanged ==
    (ats.op = "optimize_resume" /\ ~ats.result.error /\ ats.result.auto_fix_results.ran) =>
        ats.result.auto_fix_results.given_content = GivenSections

-----------------------------------------------------------------------------
(* Properties of the content aligner                                       *)

\* The claimed annotation of the entry the result took from position
\* e.given: score (|title keywords| + 2 |description keywords|) / (3 n)
AnnotatedAsClaimed(e, experiences, n) ==
    LET exp == experiences[e.given]
        job == 1..n
    IN /\ e.title = exp.title /\ e.description = exp.description
       /\ IF n = 0 THEN e.alignment_score[1] = 0
          ELSE e.alignment_score[1] * 3 * n =
                  e.alignment_score[2] * (Cardinality(exp.title \cap job)
                                          + 2 * Cardinality(exp.description \cap job))
       /\ e.matching_keywords = (exp.title \cup exp.description) \cap job

\* C23: highlight_matching_experiences returns every entry given, each with
\* alignment_score = (score(title) + 2 * score(description)) / 3 and
\* matching_keywords = the keywords of title and description that are job
\* keywords, in descending order of alignment_score; align_content keeps the
\* first 5 of that list at most.
C23_ExperiencesRankedTopFive ==
    /\ ats.op = "highlight_matching_experiences" =>
          /\ Len(ats.result) = Len(ats.experiences)
          /\ { ats.result[i].given : i \in 1..Len(ats.result) } = 1..Len(ats.experiences)
          /\ \A i \in 1..Len(ats.result) :
                AnnotatedAsClaimed(ats.result[i], ats.experiences, ats.keywords)
          /\ \A i, j \in 1..Len(ats.result) :
                i < j => FLeq(ats.result[j].alignment_score, ats.result[i].alignment_score)
    /\ ats.op = "align_content" =>
          LET kept == ats.result.experience
              left == (1..Len(ats.experiences)) \ { kept[i].given : i \in 1..Len(kept) }
          IN /\ Len(kept) = (IF Len(ats.experiences) < 5 THEN Len(ats.experiences) ELSE 5)
             /\ \A i \in 1..Len(kept) :
                   AnnotatedAsClaimed(kept[i], ats.experiences, ats.keywords)
             /\ \A i, j \in 1..Len(kept) :
                   i < j => FLeq(kept[j].alignment_score, kept[i].alignment_score)
             /\ \A i \in 1..Len(kept), g \in left :
                   FLeq(EnhancedExperience(ats.experiences[g], g, ats.keywords).alignment_score,
                        kept[i].alignment_score)

\* Six entries given in ascending order of score: five are kept, the best
\* first, and the entry left out is the first one given
C23_Witness ==
    /\ ats.op = "align_content"
    /\ Len(ats.experiences) = 6
    /\ Len(ats.result.experience) = 5
    /\ ats.result.experience[1].given = 6
    /\ \A i \in 1..5 : ats.result.experience[i].given # 1
    /\ FLt(ats.result.experience[5].alignment_score, ats.result.experience[1].alignment_score)

-----------------------------------------------------------------------------
(* Properties of the run state                                             *)

\* C24 (as claimed): when run_workflow has returned, execution_time holds
\* 'total' and an entry under the stage name of every stage whose node was
\* executed, whether the stage succeeded or failed.
C24_EveryExecutedStageTimed ==
    result.returned =>
        /\ "total" \in result.execution_time
        /\ \A k \in 1..5 :
              outcome[k] # "unreached" => StageName[k] \in result.execution_time

\* A stage output of the run state is set: it is not None
IsSet(v) == v # None

\* The stage outputs held form a prefix of the pipeline
OutputsFormPrefix ==
    /\ IsSet(state.profile_data) => IsSet(state.job_data)
    /\ IsSet(state.aligned_data) => IsSet(state.profile_data)
    /\ IsSet(state.optimized_data) => IsSet(state.aligned_data)
    /\ state.latex_file_path # NoPath => IsSet(state.optimized_data)

\* A step of a run keeps every output that is set
OutputsKept ==
    pc \notin {"idle", "done"} =>
        /\ IsSet(state.job_data) => state'.job_data = state.job_data
        /\ IsSet(state.profile_data) => state'.profile_data = state.profile_data
        /\ IsSet(state.aligned_data) => state'.aligned_data = state.aligned_data
        /\ IsSet(state.optimized_data) => state'.optimized_data = state.optimized_data
        /\ state.latex_file_path # NoPath => state'.latex_file_path = state.latex_file_path

\* C25: at every point of a run the stage outputs held in the run state form
\* a prefix of the pipeline (profile_data only with job_data, aligned_data
\* only with profile_data, optimized_data only with aligned_data,
\* latex_file_path only with optimized_data), and no step of the run clears
\* or replaces an output that is set.
C25_OutputsFormPrefix == []OutputsFormPrefix /\ [][OutputsKept]_vars

\* All five outputs are set
C25_Witness ==
    /\ IsSet(state.job_data) /\ IsSet(state.profile_data) /\ IsSet(state.aligned_data)
    /\ IsSet(state.optimized_data) /\ state.latex_file_path # NoPath

-----------------------------------------------------------------------------
(* Properties of updates the store ignores                                 *)

\* Every keyword of the call that names a field of WorkflowContextModel
\* passes None; the other keywords name no field of the model
OnlyNoneAndUndefined(a) ==
    /\ \A f \in StringFields \cup {"latex_file_path"} : a[f] \in {AbsentStr, NoPath}
    /\ \A f \in DataFields : a[f].kind \in {"absent", "None"}
    /\ ~a.metadata.given \/ a.metadata.none

\* C29 (as claimed): an update_context call on a stored context whose
\* keywords are fields passed as None or names the model does not define
\* raises no error and leaves every stored field of the context unchanged.
C29_NoneAndUndefinedIgnored ==
    (/\ lastOp.op = "update"
     /\ lastOp.pre # NoContext
     /\ OnlyNoneAndUndefined(lastOp.args)) =>
        /\ ~lastOp.raised
        /\ lastOp.ret = lastOp.pre
        /\ Load(disk, lastOp.id) = lastOp.pre

-----------------------------------------------------------------------------
(* Properties of the planner                                               *)

\* C30 (as claimed): for every integer current_step, get_next_step returns
\* None or a step whose number is in 1..5 and whose agent is the agent at
\* that position of the five-step sequence; for 1 <= current_step < 5 it
\* returns step current_step + 1, and None when no step follows.
C30_NextStepInSequence ==
    ats.op = "get_next_step" =>
        LET r == ats.result
            sequence == <<"JDExtractorAgent", "ProfileRAGAgent", "ContentAlignmentAgent",
                          "ATSOptimizerAgent", "LaTeXFormatterAgent">>
        IN /\ r.returned \in {"None", "step"}
           /\ r.returned = "step" => (r.step \in 1..5 /\ r.agent = sequence[r.step])
           /\ ats.current_step \in 1..4 =>
                 (r.returned = "step" /\ r.step = ats.current_step + 1)
           /\ ats.current_step >= 5 => r.returned = "None"

====
